---- MODULE Spec2Model ----
(***************************************************************************)
(* A model of the go-ebnf pattern matching engine: the backtracking Reader *)
(* (position, line tracking, savepoint stacks) and the Match methods of    *)
(* the seven pattern variants TerminalString, CharacterGroup, Alternation, *)
(* Concatenation, Repetition, Exception and EOF.                           *)
(*                                                                         *)
(* Go's recursion is modelled by an explicit call stack of frames; every   *)
(* Match method is cut into steps at its calls (child Match, Transform)    *)
(* and the order of the steps is forced by the frame's pc.  MatchResult    *)
(* objects live in a heap and are referred to by pointer, because the code *)
(* aliases and mutates them (Exception.Match).                             *)
(*                                                                         *)
(* r, heap, stack, ret, log, status and root are the state of the match    *)
(* that is running; sched holds the state of a second match on a reader of *)
(* its own, waiting for the processor, when there is one.                  *)
(***************************************************************************)
EXTENDS Integers, Sequences, FiniteSets, TLC

VARIABLES r, heap, stack, ret, log, status, root, sched

vars == <<r, heap, stack, ret, log, status, root, sched>>

\* ------------------------------------------------------------------------
\* Bounds of the model
\* ------------------------------------------------------------------------

\* longest input, in code points
MaxLen == 3

\* iterations without progress that the loop of an unbounded Repetition is
\* followed through
MaxStall == 2

\* code points of the inputs: 'a', 'b' and line feed
Alphabet == {97, 98, 10}

RECURSIVE SeqsUpTo(_, _)
SeqsUpTo(S, n) ==
    IF n = 0 THEN {<<>>}
    ELSE LET shorter == SeqsUpTo(S, n - 1)
         IN  shorter \cup {Append(s, c) : s \in {t \in shorter : Len(t) = n - 1}, c \in S}

Inputs == SeqsUpTo(Alphabet, MaxLen)

\* ------------------------------------------------------------------------
\* Values
\* ------------------------------------------------------------------------

LF == 10
CR == 13

\* a nil *MatchResult
NilPtr == 0

\* a nil error
NoError == ""

\* io.EOF
EOFError == "EOF"

\* a nil *ReaderPos
NilPos == [absoluteCharPos |-> -1, relativeCharPos |-> -1, linePos |-> -1]

\* MatchResult.Result is an interface{}: nil, a string, or a []*MatchResult
NilResult == [type |-> "nil", val |-> <<>>]
StringResult(s) == [type |-> "string", val |-> s]
ListResult(ms) == [type |-> "list", val |-> ms]

\* the zero MatchResult, &MatchResult{}
MatchResult ==
    [Match |-> FALSE, PartialMatch |-> FALSE, BeginPos |-> NilPos,
     EndPos |-> NilPos, Result |-> NilResult, Error |-> NoError,
     Failed |-> NilPtr]

\* ------------------------------------------------------------------------
\* Reader
\* ------------------------------------------------------------------------

\* a line prefetch loop that takes the LF after a CR for a terminator of its
\* own
RECURSIVE ScanLinesWithoutCRLF(_, _, _)
ScanLinesWithoutCRLF(rs, index, lines) ==
    IF ~(index < Len(rs)) THEN lines
    ELSE IF rs[index + 1] \in {13, 10}
    THEN ScanLinesWithoutCRLF(rs, index + 1, Append(lines, index + 1))
    ELSE ScanLinesWithoutCRLF(rs, index + 1, lines)

\* the line prefetch loop of NewReader: CRLF, bare CR and LF each end a line
RECURSIVE ScanLines(_, _, _)
ScanLines(rs, index, lines) ==
    IF ~(index < Len(rs)) THEN lines
    ELSE LET rn == rs[index + 1]
             index1 == index + 1
         IN  IF rn = CR
             THEN LET index2 == IF index1 < Len(rs) /\ rs[index1 + 1] = LF
                                THEN index1 + 1 ELSE index1
                  IN  ScanLines(rs, index2, Append(lines, index2))
             ELSE IF rn = LF
             THEN ScanLines(rs, index1, Append(lines, index1))
             ELSE ScanLines(rs, index1, lines)

NewReader(rs) ==
    LET lines == ScanLines(rs, 0, <<>>)
    IN  [buf |-> rs, bufPos |-> 0, bufPosEnd |-> Len(rs), bufPosStack |-> <<0>>,
         lines |-> lines, linePos |-> 0, linePosEnd |-> Len(lines),
         linePosStack |-> <<0>>, errorStack |-> <<>>]

relativePosition(rd) ==
    IF rd.linePos = 0 THEN rd.bufPos
    ELSE rd.bufPos - rd.lines[rd.linePos]

CurrentPosition(rd) ==
    [absoluteCharPos |-> rd.bufPos,
     relativeCharPos |-> relativePosition(rd),
     linePos |-> rd.linePos]

PushState(rd) ==
    [rd EXCEPT !.bufPosStack = Append(rd.bufPosStack, rd.bufPos),
               !.linePosStack = Append(rd.linePosStack, rd.linePos)]

\* RestoreState that forgets the line position
RestoreStateKeepsLine(rd) ==
    LET l == Len(rd.bufPosStack)
        ll == Len(rd.linePosStack)
    IN  [rd EXCEPT !.bufPos = rd.bufPosStack[l],
                   !.bufPosStack = SubSeq(rd.bufPosStack, 1, l - 1),
                   !.linePosStack = SubSeq(rd.linePosStack, 1, ll - 1)]

\* RestoreState that takes the errors off the reader as well
RestoreStateDropsErrors(rd) ==
    LET l == Len(rd.bufPosStack)
        ll == Len(rd.linePosStack)
    IN  [rd EXCEPT !.bufPos = rd.bufPosStack[l],
                   !.bufPosStack = SubSeq(rd.bufPosStack, 1, l - 1),
                   !.linePos = rd.linePosStack[ll],
                   !.linePosStack = SubSeq(rd.linePosStack, 1, ll - 1),
                   !.errorStack = <<>>]

\* RestoreState that takes two savepoints off the stacks
RestoreStateTwice(rd) ==
    LET l == Len(rd.bufPosStack)
        ll == Len(rd.linePosStack)
    IN  [rd EXCEPT !.bufPos = rd.bufPosStack[l],
                   !.bufPosStack = SubSeq(rd.bufPosStack, 1, l - 2),
                   !.linePos = rd.linePosStack[ll],
                   !.linePosStack = SubSeq(rd.linePosStack, 1, ll - 2)]

RestoreState(rd) ==
    LET l == Len(rd.bufPosStack)
        ll == Len(rd.linePosStack)
    IN  [rd EXCEPT !.bufPos = rd.bufPosStack[l],
                   !.bufPosStack = SubSeq(rd.bufPosStack, 1, l - 1),
                   !.linePos = rd.linePosStack[ll],
                   !.linePosStack = SubSeq(rd.linePosStack, 1, ll - 1)]

\* PopState that goes back to the savepoint
PopStateRewinds(rd) == RestoreState(rd)

\* PopState that forgets the line stack
PopStateKeepsLineStack(rd) ==
    LET l == Len(rd.bufPosStack)
    IN  [rd EXCEPT !.bufPosStack = SubSeq(rd.bufPosStack, 1, l - 1)]

PopState(rd) ==
    LET l == Len(rd.bufPosStack)
        ll == Len(rd.linePosStack)
    IN  [rd EXCEPT !.bufPosStack = SubSeq(rd.bufPosStack, 1, l - 1),
                   !.linePosStack = SubSeq(rd.linePosStack, 1, ll - 1)]

\* Reader.PushError
PushError(rd, failed) == [rd EXCEPT !.errorStack = Append(@, failed)]

\* DeepestError's loop over a prefix of r.errorStack, where a later result
\* that reaches as far as the deepest one so far replaces it
RECURSIVE DeepestErrorLastWins(_, _)
DeepestErrorLastWins(es, h) ==
    IF es = <<>> THEN NilPtr
    ELSE LET deepestResult == DeepestErrorLastWins(SubSeq(es, 1, Len(es) - 1), h)
             result == es[Len(es)]
         IN  IF deepestResult = NilPtr THEN result
             ELSE IF h[result].EndPos.absoluteCharPos
                        >= h[deepestResult].EndPos.absoluteCharPos
                  THEN result
                  ELSE deepestResult

\* Reader.DeepestError: the loop over r.errorStack, as a fold over the
\* prefix es of the stack; h is the heap the pointers refer to
RECURSIVE DeepestError(_, _)
DeepestError(es, h) ==
    IF es = <<>> THEN NilPtr
    ELSE LET deepestResult == DeepestError(SubSeq(es, 1, Len(es) - 1), h)
             result == es[Len(es)]
         IN  IF deepestResult = NilPtr THEN result
             ELSE IF h[result].EndPos.absoluteCharPos
                        > h[deepestResult].EndPos.absoluteCharPos
                  THEN result
                  ELSE deepestResult

\* the text from the start of the buffer instead of from the last savepoint
StringFromBufferStart(rd) == SubSeq(rd.buf, 1, rd.bufPos)

\* Reader.String: the runes between the top savepoint and the position
String(rd) ==
    SubSeq(rd.buf, rd.bufPosStack[Len(rd.bufPosStack)] + 1, rd.bufPos)

Finished(rd) == rd.bufPos >= rd.bufPosEnd

\* Reader.Peak: the rune at the position, the error, and the reader afterwards
Peak(rd) ==
    IF rd.bufPos < rd.bufPosEnd
    THEN [rn |-> rd.buf[rd.bufPos + 1], err |-> NoError, r |-> rd]
    ELSE [rn |-> 0, err |-> EOFError, r |-> rd]

\* a Read that advances at the end of the buffer too
ReadBeyondEnd(rd) ==
    [rn |-> 0, err |-> IF rd.bufPos < rd.bufPosEnd THEN NoError ELSE EOFError,
     r |-> [rd EXCEPT !.bufPos = rd.bufPos + 1]]

\* Reader.Read: the rune read, the error, and the reader afterwards
Read(rd) ==
    IF rd.bufPos < rd.bufPosEnd
    THEN LET pos == rd.bufPos + 1
             line == IF pos < rd.bufPosEnd /\ rd.linePos < rd.linePosEnd
                        /\ pos >= rd.lines[rd.linePos + 1]
                     THEN rd.linePos + 1 ELSE rd.linePos
         IN  [rn |-> rd.buf[rd.bufPos + 1], err |-> NoError,
              r |-> [rd EXCEPT !.bufPos = pos, !.linePos = line]]
    ELSE [rn |-> 0, err |-> EOFError, r |-> rd]

\* Reader.StringFromResult: the runes between the positions of a result;
\* defined when the result has both positions
StringFromResult(rd, m) ==
    SubSeq(rd.buf, m.BeginPos.absoluteCharPos + 1, m.EndPos.absoluteCharPos)

\* n calls of Reader.Read
RECURSIVE Advance(_, _)
Advance(rd, n) == IF n = 0 THEN rd ELSE Advance(Read(rd).r, n - 1)

\* ------------------------------------------------------------------------
\* Patterns
\* ------------------------------------------------------------------------

NewCharacterGroupRangeFunction(low, high) ==
    [isRange |-> TRUE, low |-> low, high |-> high, enum |-> <<>>]

NewCharacterGroupEnumFunction(enum) ==
    [isRange |-> FALSE, low |-> 0, high |-> 0, enum |-> enum]

\* the call g.Group(rn) of a CharacterGroupFunction
Group(g, rn) ==
    IF g.isRange THEN rn >= g.low /\ rn <= g.high
    ELSE \E k \in 1..Len(g.enum) : g.enum[k] = rn

\* the fields of all pattern structs; a constructor sets its own
Pattern ==
    [kind |-> "", T |-> FALSE, String |-> <<>>,
     Group |-> NewCharacterGroupEnumFunction(<<>>), Reversed |-> FALSE,
     Patterns |-> <<>>, Pattern |-> 0, Min |-> 0, Max |-> 0,
     MustMatch |-> 0, Except |-> 0]

NewTerminalString(s, t) ==
    [Pattern EXCEPT !.kind = "TerminalString", !.T = t, !.String = s]

NewCharacterGroup(f, reversed, t) ==
    [Pattern EXCEPT !.kind = "CharacterGroup", !.T = t, !.Group = f,
                    !.Reversed = reversed]

NewCharacterEnum(enum, reversed, t) ==
    NewCharacterGroup(NewCharacterGroupEnumFunction(enum), reversed, t)

NewCharacterRange(low, high, reversed, t) ==
    NewCharacterGroup(NewCharacterGroupRangeFunction(low, high), reversed, t)

NewAlternation(patterns, t) ==
    [Pattern EXCEPT !.kind = "Alternation", !.T = t, !.Patterns = patterns]

NewConcatenation(patterns, t) ==
    [Pattern EXCEPT !.kind = "Concatenation", !.T = t, !.Patterns = patterns]

NewRepetition(p, min, max, t) ==
    [Pattern EXCEPT !.kind = "Repetition", !.T = t, !.Pattern = p,
                    !.Min = min, !.Max = max]

NewOptional(p, t) ==
    [Pattern EXCEPT !.kind = "Repetition", !.T = t, !.Pattern = p,
                    !.Min = 0, !.Max = 1]

NewAny(p, t) ==
    [Pattern EXCEPT !.kind = "Repetition", !.T = t, !.Pattern = p,
                    !.Min = 0, !.Max = 0]

NewException(mustMatch, except, t) ==
    [Pattern EXCEPT !.kind = "Exception", !.T = t, !.MustMatch = mustMatch,
                    !.Except = except]

NewEOF(t) == [Pattern EXCEPT !.kind = "EOF", !.T = t]

\* The pattern DAG under test.  A pattern is referred to by its index; the
\* children of a pattern have smaller indices.
Grammar ==
    << NewTerminalString(<<97>>, TRUE),                    \*  1  "a"
       NewTerminalString(<<98>>, TRUE),                    \*  2  "b"
       NewTerminalString(<<97, 98>>, TRUE),                \*  3  "ab"
       NewTerminalString(<<>>, FALSE),                     \*  4  ""
       NewCharacterEnum(<<97>>, FALSE, TRUE),              \*  5  [a]
       NewCharacterRange(97, 98, TRUE, TRUE),              \*  6  [^a-b]
       NewEOF(TRUE),                                       \*  7  EOF
       NewAlternation(<<1, 3>>, TRUE),                     \*  8  "a" | "ab"
       NewAlternation(<<2, 3, 1>>, TRUE),                  \*  9  "b" | "ab" | "a"
       NewConcatenation(<<1, 2>>, TRUE),                   \* 10  "a" "b"
       NewConcatenation(<<5, 6, 1>>, TRUE),                \* 11  [a] [^a-b] "a"
       NewRepetition(5, 2, 0, TRUE),                       \* 12  [a]{2,}
       NewOptional(1, TRUE),                               \* 13  "a"?
       NewAny(5, TRUE),                                    \* 14  [a]*
       NewRepetition(5, 1, 2, TRUE),                       \* 15  [a]{1,2}
       NewException(5, 3, TRUE),                           \* 16  [a] - "ab"
       NewConcatenation(<<14, 7>>, TRUE),                  \* 17  [a]* EOF
       NewAlternation(<<10, 11, 12>>, TRUE),               \* 18  10 | 11 | 12
       NewRepetition(10, 1, 0, TRUE),                      \* 19  ("a" "b")+
       NewConcatenation(<<16, 15>>, TRUE),                 \* 20  ([a] - "ab") [a]{1,2}
       NewException(8, 10, FALSE),                         \* 21  ("a" | "ab") - ("a" "b")
       NewConcatenation(<<14, 1>>, TRUE),                  \* 22  [a]* "a"
       NewConcatenation(<<1, 6, 2>>, TRUE),                \* 23  "a" [^a-b] "b"
       NewAlternation(<<10, 11, 23>>, TRUE),               \* 24  10 | 11 | 23
       NewAny(13, TRUE),                                   \* 25  ("a"?)*
       NewAlternation(<<7, 13, 4>>, TRUE)                  \* 26  EOF | "a"? | ""
    >>

Patterns == DOMAIN Grammar

\* the error a transform callback of pattern p returns when it fails
TransformError(p) == "transform error " \o ToString(p)

\* BaseTransformer.Transform: nil without a callback; a callback is user
\* code that returns nil or an error
Transform(p) ==
    IF Grammar[p].T THEN {NoError, TransformError(p)} ELSE {NoError}

\* ------------------------------------------------------------------------
\* The call stack
\* ------------------------------------------------------------------------

\* The frame of one call of Match on pattern p: the locals of the Match
\* methods, and for the properties the reader at entry (entry) and the
\* child calls made so far (calls).
NewFrame(p, rd) ==
    [p |-> p, pc |-> "start", beginPos |-> NilPos, result |-> NilPtr,
     matches |-> <<>>, partialMatch |-> FALSE, partialMatchResult |-> NilPtr,
     i |-> 1, entry |-> rd, callPos |-> 0, calls |-> <<>>]

Top == stack[Len(stack)]

Kind(f) == Grammar[f.p].kind

\* no call has just returned
NoRet == [valid |-> FALSE, result |-> NilPtr, err |-> NoError,
          frame |-> NewFrame(1, NewReader(<<>>))]

Running(kind, pc) ==
    /\ status = "running"
    /\ Len(stack) > 0
    /\ Kind(Top) = kind
    /\ Top.pc = pc

\* the frame f stays on top of the stack
Goto(f) == stack' = [stack EXCEPT ![Len(stack)] = f]

\* the frame f calls Match on pattern child
Call(f, child, rd) ==
    /\ stack' = Append([stack EXCEPT ![Len(stack)] = [f EXCEPT !.callPos = rd.bufPos]],
                       NewFrame(child, rd))
    /\ log' = Append(log, [ev |-> "call", p |-> child, m |-> NilPtr])

\* the frame f returns (result, err) to its caller
Return(f, result, err) ==
    /\ stack' = SubSeq(stack, 1, Len(stack) - 1)
    /\ ret' = [valid |-> TRUE, result |-> result, err |-> err, frame |-> f]
    /\ status' = IF Len(stack) = 1 THEN "done" ELSE status

\* the record of a returned child call, kept in the caller's frame: the
\* pattern called, the reader position at the call and at the return, the
\* result returned and its Match field at the return
Returned(f) ==
    [f EXCEPT !.calls = Append(f.calls,
                [p |-> ret.frame.p, begin |-> f.callPos, end |-> r.bufPos,
                 result |-> ret.result,
                 match |-> ret.result # NilPtr /\ heap[ret.result].Match])]

\* The transform callbacks of the JSON grammar report a failed partial
\* match: the test on m.Match and m.PartialMatch
ReportsError(p, m, h) ==
    Grammar[p].T /\ m # NilPtr /\ ~h[m].Match /\ h[m].PartialMatch

PartialMatchError == "partial match"

\* the reader after the callback of pattern p has run on m: r.PushError(m)
TransformReader(p, m) == IF ReportsError(p, m, heap) THEN PushError(r, m) ELSE r

\* the heap after the callback of pattern p has run on m: m.Error is set
TransformHeap(p, m) ==
    IF ReportsError(p, m, heap) THEN [heap EXCEPT ![m].Error = PartialMatchError]
    ELSE heap

Transformed(p, m) == Append(log, [ev |-> "transform", p |-> p, m |-> m])

\* ------------------------------------------------------------------------
\* TerminalString.Match
\* ------------------------------------------------------------------------

TerminalStringEnter ==
    /\ Running("TerminalString", "start")
    /\ LET beginPos == CurrentPosition(r)
           result == Len(heap) + 1
       IN  /\ r' = PushState(r)
           /\ heap' = Append(heap, [MatchResult EXCEPT !.BeginPos = beginPos])
           /\ Goto([Top EXCEPT !.pc = "loop", !.beginPos = beginPos,
                               !.result = result, !.i = 1])
    /\ UNCHANGED <<ret, log, status, root>>
    /\ UNCHANGED sched

\* one iteration of the loop over the runes of s.String, or the code after it
TerminalStringLoop ==
    /\ Running("TerminalString", "loop")
    /\ LET s == Grammar[Top.p]
           rd == Read(r)
           m == Top.result
       IN  IF Top.i > Len(s.String)
           THEN /\ heap' = [heap EXCEPT ![m].Match = TRUE,
                                        ![m].EndPos = CurrentPosition(r),
                                        ![m].Result = StringResult(String(r))]
                /\ r' = r
                /\ Goto([Top EXCEPT !.pc = "transform"])
           ELSE IF rd.err = EOFError \/ s.String[Top.i] # rd.rn
           THEN /\ heap' = [heap EXCEPT ![m].EndPos = CurrentPosition(rd.r)]
                /\ r' = rd.r
                /\ Goto([Top EXCEPT !.pc = "transform"])
           ELSE /\ heap' = heap
                /\ r' = rd.r
                /\ Goto([Top EXCEPT !.i = Top.i + 1])
    /\ UNCHANGED <<ret, log, status, root>>
    /\ UNCHANGED sched

\* a TerminalString that returns without calling its transform
TerminalStringTransformSkipped ==
    /\ Running("TerminalString", "transform")
    /\ Goto([Top EXCEPT !.pc = "exit"])
    /\ UNCHANGED <<r, heap, ret, log, status, root>>
    /\ UNCHANGED sched

TerminalStringTransform ==
    /\ Running("TerminalString", "transform")
    /\ \E err \in Transform(Top.p) :
          /\ log' = Transformed(Top.p, Top.result)
          /\ IF err # NoError
             THEN Return(Top, NilPtr, err)
             ELSE Goto([Top EXCEPT !.pc = "exit"]) /\ UNCHANGED <<ret, status>>
    /\ r' = TransformReader(Top.p, Top.result)
    /\ heap' = TransformHeap(Top.p, Top.result)
    /\ UNCHANGED root
    /\ UNCHANGED sched

TerminalStringReturn ==
    /\ Running("TerminalString", "exit")
    /\ r' = IF heap[Top.result].Match THEN PopState(r) ELSE RestoreState(r)
    /\ Return(Top, Top.result, NoError)
    /\ UNCHANGED <<heap, log, root>>
    /\ UNCHANGED sched

\* ------------------------------------------------------------------------
\* CharacterGroup.Match
\* ------------------------------------------------------------------------

CharacterGroupEnter ==
    /\ Running("CharacterGroup", "start")
    /\ LET beginPos == CurrentPosition(r)
           result == Len(heap) + 1
       IN  /\ r' = PushState(r)
           /\ heap' = Append(heap, [MatchResult EXCEPT !.BeginPos = beginPos])
           /\ Goto([Top EXCEPT !.pc = "read", !.beginPos = beginPos,
                               !.result = result])
    /\ UNCHANGED <<ret, log, status, root>>
    /\ UNCHANGED sched

\* a membership test that ignores g.Reversed
CharacterGroupMemberNotReversed(g, rn) == Group(g.Group, rn)

\* the membership test of the rune read
CharacterGroupMember(g, rn) ==
    IF g.Reversed THEN ~Group(g.Group, rn) ELSE Group(g.Group, rn)

\* r.Read() and the branches on its outcome, up to the call of Transform;
\* a rune that is no member goes to RestoreState without Transform or EndPos
CharacterGroupRead ==
    /\ Running("CharacterGroup", "read")
    /\ LET g == Grammar[Top.p]
           rd == Read(r)
           m == Top.result
       IN  /\ r' = rd.r
           /\ IF rd.err = EOFError
              THEN /\ heap' = [heap EXCEPT ![m].EndPos = CurrentPosition(rd.r)]
                   /\ Goto([Top EXCEPT !.pc = "transform"])
              ELSE IF CharacterGroupMember(g, rd.rn)
              THEN /\ heap' = [heap EXCEPT ![m].Match = TRUE,
                                           ![m].Result = StringResult(String(rd.r)),
                                           ![m].EndPos = CurrentPosition(rd.r)]
                   /\ Goto([Top EXCEPT !.pc = "transform"])
              ELSE /\ heap' = heap
                   /\ Goto([Top EXCEPT !.pc = "exit"])
    /\ UNCHANGED <<ret, log, status, root>>
    /\ UNCHANGED sched

CharacterGroupTransform ==
    /\ Running("CharacterGroup", "transform")
    /\ \E err \in Transform(Top.p) :
          /\ log' = Transformed(Top.p, Top.result)
          /\ IF err # NoError
             THEN Return(Top, NilPtr, err)
             ELSE Goto([Top EXCEPT !.pc = "exit"]) /\ UNCHANGED <<ret, status>>
    /\ r' = TransformReader(Top.p, Top.result)
    /\ heap' = TransformHeap(Top.p, Top.result)
    /\ UNCHANGED root
    /\ UNCHANGED sched

CharacterGroupReturn ==
    /\ Running("CharacterGroup", "exit")
    /\ r' = IF heap[Top.result].Match THEN PopState(r) ELSE RestoreState(r)
    /\ Return(Top, Top.result, NoError)
    /\ UNCHANGED <<heap, log, root>>
    /\ UNCHANGED sched

\* ------------------------------------------------------------------------
\* Alternation.Match
\* ------------------------------------------------------------------------

AlternationEnter ==
    /\ Running("Alternation", "start")
    /\ Goto([Top EXCEPT !.pc = "loop", !.beginPos = CurrentPosition(r),
                        !.partialMatchResult = NilPtr, !.i = 1])
    /\ UNCHANGED <<r, heap, ret, log, status, root>>
    /\ UNCHANGED sched

\* a loop over a.Patterns without the Finished check
AlternationLoopUnchecked ==
    /\ Running("Alternation", "loop")
    /\ LET a == Grammar[Top.p]
           result == Len(heap) + 1
       IN  IF Top.i > Len(a.Patterns)
           THEN /\ heap' = Append(heap, [MatchResult EXCEPT
                                            !.BeginPos = Top.beginPos,
                                            !.EndPos = Top.beginPos,
                                            !.Match = FALSE,
                                            !.Failed = Top.partialMatchResult])
                /\ Goto([Top EXCEPT !.pc = "transform", !.result = result])
                /\ log' = log
           ELSE /\ heap' = heap
                /\ Call([Top EXCEPT !.pc = "wait"], a.Patterns[Top.i], r)
    /\ UNCHANGED <<r, ret, status, root>>
    /\ UNCHANGED sched

\* the head of the loop over a.Patterns: the Finished check and the child
\* call, or the failure record built after the loop
AlternationLoop ==
    /\ Running("Alternation", "loop")
    /\ LET a == Grammar[Top.p]
           result == Len(heap) + 1
       IN  IF Top.i > Len(a.Patterns) \/ Finished(r)
           THEN /\ heap' = Append(heap, [MatchResult EXCEPT
                                            !.BeginPos = Top.beginPos,
                                            !.EndPos = Top.beginPos,
                                            !.Match = FALSE,
                                            !.Failed = Top.partialMatchResult])
                /\ Goto([Top EXCEPT !.pc = "transform", !.result = result])
                /\ log' = log
           ELSE /\ heap' = heap
                /\ Call([Top EXCEPT !.pc = "wait"], a.Patterns[Top.i], r)
    /\ UNCHANGED <<r, ret, status, root>>
    /\ UNCHANGED sched

\* a loop that does not stop at the first matching child: the last match wins
AlternationChildLastMatch ==
    /\ Running("Alternation", "wait")
    /\ ret.valid
    /\ IF ret.err # NoError
       THEN Return(Returned(Top), NilPtr, ret.err)
       ELSE /\ ret' = NoRet
            /\ status' = status
            /\ LET last == Top.i >= Len(Grammar[Top.p].Patterns) \/ Finished(r)
               IN  IF heap[ret.result].Match
                   THEN Goto([Returned(Top) EXCEPT
                                !.pc = IF last THEN "transform" ELSE "loop",
                                !.i = Top.i + 1,
                                !.result = ret.result])
                   ELSE IF last /\ Top.result # NilPtr
                   THEN Goto([Returned(Top) EXCEPT !.pc = "transform"])
                   ELSE Goto([Returned(Top) EXCEPT !.pc = "loop", !.i = Top.i + 1])
    /\ UNCHANGED <<r, heap, log, root>>
    /\ UNCHANGED sched

\* a loop that remembers the first partial match instead of the last
AlternationChildFirstPartial ==
    /\ Running("Alternation", "wait")
    /\ ret.valid
    /\ IF ret.err # NoError
       THEN Return(Returned(Top), NilPtr, ret.err)
       ELSE /\ ret' = NoRet
            /\ status' = status
            /\ IF heap[ret.result].Match
               THEN Goto([Returned(Top) EXCEPT !.pc = "transform",
                                               !.result = ret.result])
               ELSE IF heap[ret.result].PartialMatch
                       /\ Top.partialMatchResult = NilPtr
               THEN Goto([Returned(Top) EXCEPT !.pc = "loop", !.i = Top.i + 1,
                                               !.partialMatchResult = ret.result])
               ELSE Goto([Returned(Top) EXCEPT !.pc = "loop", !.i = Top.i + 1])
    /\ UNCHANGED <<r, heap, log, root>>
    /\ UNCHANGED sched

\* p.Match(r) has returned
AlternationChild ==
    /\ Running("Alternation", "wait")
    /\ ret.valid
    /\ IF ret.err # NoError
       THEN Return(Returned(Top), NilPtr, ret.err)
       ELSE /\ ret' = NoRet
            /\ status' = status
            /\ IF heap[ret.result].Match
               THEN Goto([Returned(Top) EXCEPT !.pc = "transform",
                                               !.result = ret.result])
               ELSE IF heap[ret.result].PartialMatch
               THEN Goto([Returned(Top) EXCEPT !.pc = "loop", !.i = Top.i + 1,
                                               !.partialMatchResult = ret.result])
               ELSE Goto([Returned(Top) EXCEPT !.pc = "loop", !.i = Top.i + 1])
    /\ UNCHANGED <<r, heap, log, root>>
    /\ UNCHANGED sched

\* a.Transform on the matching child's result or on the failure record,
\* and the return
AlternationTransform ==
    /\ Running("Alternation", "transform")
    /\ log' = Transformed(Top.p, Top.result)
    /\ \E err \in Transform(Top.p) :
          IF err # NoError
          THEN Return(Top, NilPtr, err)
          ELSE Return(Top, Top.result, NoError)
    /\ r' = TransformReader(Top.p, Top.result)
    /\ heap' = TransformHeap(Top.p, Top.result)
    /\ UNCHANGED root
    /\ UNCHANGED sched

\* ------------------------------------------------------------------------
\* Concatenation.Match
\* ------------------------------------------------------------------------

ConcatenationEnter ==
    /\ Running("Concatenation", "start")
    /\ r' = PushState(r)
    /\ Goto([Top EXCEPT !.pc = "loop", !.beginPos = CurrentPosition(r),
                        !.matches = <<>>, !.partialMatch = FALSE, !.i = 1])
    /\ UNCHANGED <<heap, ret, log, status, root>>
    /\ UNCHANGED sched

\* the head of the loop over c.Patterns: the child call, or the success
\* record built after the loop
ConcatenationLoop ==
    /\ Running("Concatenation", "loop")
    /\ LET c == Grammar[Top.p]
           result == Len(heap) + 1
       IN  IF Top.i > Len(c.Patterns)
           THEN /\ heap' = Append(heap, [MatchResult EXCEPT
                                            !.BeginPos = Top.beginPos,
                                            !.EndPos = CurrentPosition(r),
                                            !.Match = TRUE,
                                            !.Result = ListResult(Top.matches)])
                /\ Goto([Top EXCEPT !.pc = "transform", !.result = result])
                /\ log' = log
           ELSE /\ heap' = heap
                /\ Call([Top EXCEPT !.pc = "wait"], c.Patterns[Top.i], r)
    /\ UNCHANGED <<r, ret, status, root>>
    /\ UNCHANGED sched

\* a failure record that is always marked partial
ConcatenationFailedAlwaysPartial(beginPos, rd, partialMatch, failed) ==
    [MatchResult EXCEPT !.BeginPos = beginPos,
                        !.EndPos = CurrentPosition(rd),
                        !.Match = FALSE,
                        !.PartialMatch = TRUE,
                        !.Failed = failed]

\* the record of a failed concatenation
ConcatenationFailed(beginPos, rd, partialMatch, failed) ==
    [MatchResult EXCEPT !.BeginPos = beginPos,
                        !.EndPos = CurrentPosition(rd),
                        !.Match = FALSE,
                        !.PartialMatch = partialMatch,
                        !.Failed = failed]

\* p.Match(r) has returned
ConcatenationChild ==
    /\ Running("Concatenation", "wait")
    /\ ret.valid
    /\ IF ret.err # NoError
       THEN Return(Returned(Top), NilPtr, ret.err) /\ heap' = heap
       ELSE /\ ret' = NoRet
            /\ status' = status
            /\ IF ~heap[ret.result].Match
               THEN /\ heap' = Append(heap, ConcatenationFailed(Top.beginPos, r,
                                               Top.partialMatch, ret.result))
                    /\ Goto([Returned(Top) EXCEPT !.pc = "transform",
                                                  !.result = Len(heap) + 1])
               ELSE /\ heap' = heap
                    /\ Goto([Returned(Top) EXCEPT
                                !.pc = "loop", !.i = Top.i + 1,
                                !.partialMatch = TRUE,
                                !.matches = Append(Top.matches, ret.result)])
    /\ UNCHANGED <<r, log, root>>
    /\ UNCHANGED sched

ConcatenationTransform ==
    /\ Running("Concatenation", "transform")
    /\ \E err \in Transform(Top.p) :
          /\ log' = Transformed(Top.p, Top.result)
          /\ IF err # NoError
             THEN Return(Top, NilPtr, err)
             ELSE Goto([Top EXCEPT !.pc = "exit"]) /\ UNCHANGED <<ret, status>>
    /\ r' = TransformReader(Top.p, Top.result)
    /\ heap' = TransformHeap(Top.p, Top.result)
    /\ UNCHANGED root
    /\ UNCHANGED sched

\* a return that rolls back the successful concatenation too
ConcatenationReturnRestores ==
    /\ Running("Concatenation", "exit")
    /\ r' = RestoreState(r)
    /\ Return(Top, Top.result, NoError)
    /\ UNCHANGED <<heap, log, root>>
    /\ UNCHANGED sched

ConcatenationReturn ==
    /\ Running("Concatenation", "exit")
    /\ r' = IF heap[Top.result].Match THEN PopState(r) ELSE RestoreState(r)
    /\ Return(Top, Top.result, NoError)
    /\ UNCHANGED <<heap, log, root>>
    /\ UNCHANGED sched

\* ------------------------------------------------------------------------
\* Repetition.Match
\* ------------------------------------------------------------------------

RepetitionEnter ==
    /\ Running("Repetition", "start")
    /\ r' = PushState(r)
    /\ Goto([Top EXCEPT !.pc = "loop", !.beginPos = CurrentPosition(r),
                        !.matches = <<>>, !.result = NilPtr])
    /\ UNCHANGED <<heap, ret, log, status, root>>
    /\ UNCHANGED sched

\* the iterations of the loop of frame f whose child matched without moving
\* the reader
RepetitionStalls(f) ==
    Cardinality({k \in 1..Len(f.calls) :
                    f.calls[k].match /\ f.calls[k].begin = f.calls[k].end})

\* the head of the for loop: break when the reader is finished, else call
\* rep.Pattern.Match.  A loop without a maximum is followed through MaxStall
\* iterations without progress.
RepetitionLoop ==
    /\ Running("Repetition", "loop")
    /\ Grammar[Top.p].Max # 0 \/ RepetitionStalls(Top) < MaxStall
    /\ IF Finished(r)
       THEN Goto([Top EXCEPT !.pc = "after"]) /\ log' = log
       ELSE Call([Top EXCEPT !.pc = "wait"], Grammar[Top.p].Pattern, r)
    /\ UNCHANGED <<r, heap, ret, status, root>>
    /\ UNCHANGED sched

\* a maximum test that takes Max = 0 for a maximum too
RepetitionAtMaxOrBeyond(rep, n) == n >= rep.Max

\* the loop breaks when Max is set and reached
RepetitionAtMax(rep, n) == rep.Max # 0 /\ n = rep.Max

\* rep.Pattern.Match(r) has returned
RepetitionChild ==
    /\ Running("Repetition", "wait")
    /\ ret.valid
    /\ IF ret.err # NoError
       THEN Return(Returned(Top), NilPtr, ret.err)
       ELSE /\ ret' = NoRet
            /\ status' = status
            /\ IF heap[ret.result].Match
               THEN LET matches == Append(Top.matches, ret.result)
                    IN  Goto([Returned(Top) EXCEPT
                                !.result = ret.result,
                                !.matches = matches,
                                !.pc = IF RepetitionAtMax(Grammar[Top.p], Len(matches))
                                       THEN "after" ELSE "loop"])
               ELSE Goto([Returned(Top) EXCEPT !.result = ret.result,
                                               !.pc = "after"])
    /\ UNCHANGED <<r, heap, log, root>>
    /\ UNCHANGED sched

\* a minimum test that asks for one match at least
RepetitionBelowMinOrEmpty(rep, n) == n < rep.Min \/ n = 0

\* a minimum test that is off by one
RepetitionBelowMinInclusive(rep, n) == n <= rep.Min

\* fewer matches than rep.Min
RepetitionBelowMin(rep, n) == n < rep.Min

RepetitionError(rep) ==
    "expected minimum of " \o ToString(rep.Min) \o " repetitions"

\* The code after the loop, up to the call of Transform.  Below the minimum
\* it reads result.Match; result is nil when the loop made no child call,
\* and the nil dereference panics.
RepetitionAfter ==
    /\ Running("Repetition", "after")
    /\ LET rep == Grammar[Top.p]
           result == Len(heap) + 1
       IN  IF RepetitionBelowMin(rep, Len(Top.matches))
           THEN IF Top.result = NilPtr
                THEN /\ status' = "panic"
                     /\ UNCHANGED <<heap, stack>>
                ELSE LET failedResult == IF heap[Top.result].Match
                                         THEN NilPtr ELSE Top.result
                     IN  /\ heap' = Append(heap, [MatchResult EXCEPT
                                            !.Error = RepetitionError(rep),
                                            !.BeginPos = Top.beginPos,
                                            !.EndPos = CurrentPosition(r),
                                            !.Match = FALSE,
                                            !.Failed = failedResult])
                         /\ Goto([Top EXCEPT !.pc = "transform", !.result = result])
                         /\ status' = status
           ELSE /\ heap' = Append(heap, [MatchResult EXCEPT
                                            !.BeginPos = Top.beginPos,
                                            !.EndPos = CurrentPosition(r),
                                            !.Match = TRUE,
                                            !.Result = ListResult(Top.matches)])
                /\ Goto([Top EXCEPT !.pc = "transform", !.result = result])
                /\ status' = status
    /\ UNCHANGED <<r, ret, log, root>>
    /\ UNCHANGED sched

RepetitionTransform ==
    /\ Running("Repetition", "transform")
    /\ \E err \in Transform(Top.p) :
          /\ log' = Transformed(Top.p, Top.result)
          /\ IF err # NoError
             THEN Return(Top, NilPtr, err)
             ELSE Goto([Top EXCEPT !.pc = "exit"]) /\ UNCHANGED <<ret, status>>
    /\ r' = TransformReader(Top.p, Top.result)
    /\ heap' = TransformHeap(Top.p, Top.result)
    /\ UNCHANGED root
    /\ UNCHANGED sched

RepetitionReturn ==
    /\ Running("Repetition", "exit")
    /\ r' = IF heap[Top.result].Match THEN PopState(r) ELSE RestoreState(r)
    /\ Return(Top, Top.result, NoError)
    /\ UNCHANGED <<heap, log, root>>
    /\ UNCHANGED sched

\* ------------------------------------------------------------------------
\* Exception.Match
\* ------------------------------------------------------------------------

ExceptionEnter ==
    /\ Running("Exception", "start")
    /\ r' = PushState(r)
    /\ Call([Top EXCEPT !.pc = "except"], Grammar[Top.p].Except, PushState(r))
    /\ UNCHANGED <<heap, ret, status, root>>
    /\ UNCHANGED sched

\* an exception that goes on to MustMatch when Except matched
ExceptionExceptIgnored ==
    /\ Running("Exception", "except")
    /\ ret.valid
    /\ IF ret.err # NoError
       THEN /\ Return(Returned(Top), NilPtr, ret.err)
            /\ UNCHANGED <<r, heap, log>>
       ELSE /\ ret' = NoRet
            /\ status' = status
            /\ r' = RestoreState(r)
            /\ Call([Returned(Top) EXCEPT !.pc = "mustMatch"],
                    Grammar[Top.p].MustMatch, RestoreState(r))
            /\ heap' = heap
    /\ UNCHANGED root
    /\ UNCHANGED sched

\* e.Except.Match(r) has returned: a match is turned into the failure of
\* the exception, in place; otherwise the savepoint is popped and
\* e.MustMatch.Match is called
ExceptionExcept ==
    /\ Running("Exception", "except")
    /\ ret.valid
    /\ IF ret.err # NoError
       THEN /\ Return(Returned(Top), NilPtr, ret.err)
            /\ UNCHANGED <<r, heap, log>>
       ELSE /\ ret' = NoRet
            /\ status' = status
            /\ IF heap[ret.result].Match
               THEN /\ heap' = [heap EXCEPT ![ret.result].Match = FALSE,
                                            ![ret.result].Failed = ret.result]
                    /\ Goto([Returned(Top) EXCEPT !.pc = "transform",
                                                  !.result = ret.result])
                    /\ UNCHANGED <<r, log>>
               ELSE /\ r' = PopState(r)
                    /\ Call([Returned(Top) EXCEPT !.pc = "mustMatch"],
                            Grammar[Top.p].MustMatch, PopState(r))
                    /\ heap' = heap
    /\ UNCHANGED root
    /\ UNCHANGED sched

\* e.Transform on the failure made of the Except match
ExceptionTransform ==
    /\ Running("Exception", "transform")
    /\ \E err \in Transform(Top.p) :
          /\ log' = Transformed(Top.p, Top.result)
          /\ IF err # NoError
             THEN Return(Top, NilPtr, err)
             ELSE Goto([Top EXCEPT !.pc = "exit"]) /\ UNCHANGED <<ret, status>>
    /\ r' = TransformReader(Top.p, Top.result)
    /\ heap' = TransformHeap(Top.p, Top.result)
    /\ UNCHANGED root
    /\ UNCHANGED sched

ExceptionReturn ==
    /\ Running("Exception", "exit")
    /\ r' = RestoreState(r)
    /\ Return(Top, Top.result, NoError)
    /\ UNCHANGED <<heap, log, root>>
    /\ UNCHANGED sched

\* a return from MustMatch that does not test the error
ExceptionMustMatchUnchecked ==
    /\ Running("Exception", "mustMatch")
    /\ ret.valid
    /\ log' = Transformed(Top.p, ret.result)
    /\ \E err \in Transform(Top.p) :
          Return(Returned(Top), ret.result, err)
    /\ r' = TransformReader(Top.p, ret.result)
    /\ heap' = TransformHeap(Top.p, ret.result)
    /\ UNCHANGED root
    /\ UNCHANGED sched

\* e.MustMatch.Match(r) has returned: its result goes through e.Transform
\* and is returned together with the error of the transform
ExceptionMustMatch ==
    /\ Running("Exception", "mustMatch")
    /\ ret.valid
    /\ IF ret.err # NoError
       THEN /\ Return(Returned(Top), NilPtr, ret.err)
            /\ UNCHANGED <<r, heap, log>>
       ELSE /\ log' = Transformed(Top.p, ret.result)
            /\ r' = TransformReader(Top.p, ret.result)
            /\ heap' = TransformHeap(Top.p, ret.result)
            /\ \E err \in Transform(Top.p) :
                  Return(Returned(Top), ret.result, err)
    /\ UNCHANGED root
    /\ UNCHANGED sched

\* ------------------------------------------------------------------------
\* EOF.Match
\* ------------------------------------------------------------------------

\* an EOF pattern that leaves a savepoint behind
EOFMatchPushes ==
    /\ Running("EOF", "start")
    /\ LET result == Len(heap) + 1
       IN  /\ heap' = Append(heap, [MatchResult EXCEPT !.Match = Finished(r)])
           /\ log' = Transformed(Top.p, result)
           /\ \E err \in Transform(Top.p) : Return(Top, result, err)
    /\ r' = PushState(r)
    /\ UNCHANGED root
    /\ UNCHANGED sched

\* the result has PartialMatch = false, so the callback reports no error
EOFMatch ==
    /\ Running("EOF", "start")
    /\ LET result == Len(heap) + 1
       IN  /\ heap' = Append(heap, [MatchResult EXCEPT !.Match = Finished(r)])
           /\ log' = Transformed(Top.p, result)
           /\ \E err \in Transform(Top.p) : Return(Top, result, err)
    /\ UNCHANGED <<r, root>>
    /\ UNCHANGED sched

\* ------------------------------------------------------------------------
\* Specification
\* ------------------------------------------------------------------------

\* no second match
NoSched == [other |-> <<>>, interleaved |-> FALSE]

\* The reader is constructed on an input and read up to some position, and
\* Match is called on the root pattern.
Init ==
    /\ root \in Patterns
    /\ \E input \in Inputs : \E start \in 0..Len(input) :
          /\ r = Advance(NewReader(input), start)
          /\ stack = <<NewFrame(root, Advance(NewReader(input), start))>>
    /\ heap = <<>>
    /\ ret = NoRet
    /\ log = <<>>
    /\ status = "running"
    /\ sched = NoSched

Next ==
    \/ TerminalStringEnter
    \/ TerminalStringLoop
    \/ TerminalStringTransform
    \/ TerminalStringReturn
    \/ CharacterGroupEnter
    \/ CharacterGroupRead
    \/ CharacterGroupTransform
    \/ CharacterGroupReturn
    \/ AlternationEnter
    \/ AlternationLoop
    \/ AlternationChild
    \/ AlternationTransform
    \/ ConcatenationEnter
    \/ ConcatenationLoop
    \/ ConcatenationChild
    \/ ConcatenationTransform
    \/ ConcatenationReturn
    \/ RepetitionEnter
    \/ RepetitionLoop
    \/ RepetitionChild
    \/ RepetitionAfter
    \/ RepetitionTransform
    \/ RepetitionReturn
    \/ ExceptionEnter
    \/ ExceptionExcept
    \/ ExceptionTransform
    \/ ExceptionReturn
    \/ ExceptionMustMatch
    \/ EOFMatch

Spec == Init /\ [][Next]_vars

\* ------------------------------------------------------------------------
\* Specification of the Reader alone
\* ------------------------------------------------------------------------

\* savepoints pushed on top of the one of the constructor
MaxDepth == 1

\* code points of the inputs of the reader: 'a', line feed, carriage return
ReaderAlphabet == {97, LF, CR}

ReaderInputs == SeqsUpTo(ReaderAlphabet, MaxLen)

\* A reader is constructed on an input; no Match is running.
ReaderInit ==
    /\ \E input \in ReaderInputs : r = NewReader(input)
    /\ heap = <<>>
    /\ stack = <<>>
    /\ ret = NoRet
    /\ log = <<>>
    /\ status = "reader"
    /\ root = 0
    /\ sched = NoSched

\* the record of the last call on the reader: the method, what it returned
\* and the reader before the call
Called(method, rn, err) ==
    <<[ev |-> method, rn |-> rn, err |-> err, before |-> r]>>

ReaderRead ==
    /\ status = "reader"
    /\ r' = Read(r).r
    /\ log' = Called("Read", Read(r).rn, Read(r).err)
    /\ UNCHANGED <<heap, stack, ret, status, root>>
    /\ UNCHANGED sched

ReaderPeak ==
    /\ status = "reader"
    /\ r' = Peak(r).r
    /\ log' = Called("Peak", Peak(r).rn, Peak(r).err)
    /\ UNCHANGED <<heap, stack, ret, status, root>>
    /\ UNCHANGED sched

ReaderPushState ==
    /\ status = "reader"
    /\ Len(r.bufPosStack) <= MaxDepth
    /\ r' = PushState(r)
    /\ log' = Called("PushState", 0, NoError)
    /\ UNCHANGED <<heap, stack, ret, status, root>>
    /\ UNCHANGED sched

\* RestoreState on an empty stack panics: it is not called then
ReaderRestoreState ==
    /\ status = "reader"
    /\ r.bufPosStack # <<>>
    /\ r' = RestoreState(r)
    /\ log' = Called("RestoreState", 0, NoError)
    /\ UNCHANGED <<heap, stack, ret, status, root>>
    /\ UNCHANGED sched

\* PopState on an empty stack panics: it is not called then
ReaderPopState ==
    /\ status = "reader"
    /\ r.bufPosStack # <<>>
    /\ r' = PopState(r)
    /\ log' = Called("PopState", 0, NoError)
    /\ UNCHANGED <<heap, stack, ret, status, root>>
    /\ UNCHANGED sched

ReaderNext ==
    \/ ReaderRead
    \/ ReaderPeak
    \/ ReaderPushState
    \/ ReaderRestoreState
    \/ ReaderPopState

ReaderSpec == ReaderInit /\ [][ReaderNext]_vars

\* ------------------------------------------------------------------------
\* Specification of two matches that share the pattern DAG
\* ------------------------------------------------------------------------

\* roots and inputs of the shared matches
SharedRoots == {17, 20, 24}

SharedInputs == {<<97, 98>>, <<97, 10>>}

\* the state of the running match
Context ==
    [r |-> r, heap |-> heap, stack |-> stack, ret |-> ret, log |-> log,
     status |-> status, root |-> root]

\* the match of context c has made a step and has not returned
Started(c) ==
    /\ c.status = "running"
    /\ Len(c.stack) > 1 \/ c.stack[1].pc # "start"

\* Two readers are constructed on the same input and Match is called on the
\* same root pattern with each of them; the second call waits.
SharedInit ==
    /\ root \in SharedRoots
    /\ \E input \in SharedInputs :
          /\ r = NewReader(input)
          /\ stack = <<NewFrame(root, NewReader(input))>>
    /\ heap = <<>>
    /\ ret = NoRet
    /\ log = <<>>
    /\ status = "running"
    /\ sched = [other |-> <<Context>>, interleaved |-> FALSE]

\* a switch after which the match that resumes reads from the position of
\* the reader of the match that is suspended
SwitchSharedPosition ==
    /\ sched.other # <<>>
    /\ LET o == sched.other[1]
       IN  /\ r' = [o.r EXCEPT !.bufPos = r.bufPos]
           /\ heap' = o.heap
           /\ stack' = o.stack
           /\ ret' = o.ret
           /\ log' = o.log
           /\ status' = o.status
           /\ root' = o.root
           /\ sched' = [other |-> <<Context>>,
                        interleaved |-> sched.interleaved
                                           \/ (Started(Context) /\ Started(o))]

\* The scheduler suspends the running match, between any two of its steps,
\* and resumes the other one.  Nothing but the two states changes hands: the
\* Match methods keep their state in locals, in the results and in the
\* reader, and only read the fields of the patterns.
Switch ==
    /\ sched.other # <<>>
    /\ LET o == sched.other[1]
       IN  /\ r' = o.r
           /\ heap' = o.heap
           /\ stack' = o.stack
           /\ ret' = o.ret
           /\ log' = o.log
           /\ status' = o.status
           /\ root' = o.root
           /\ sched' = [other |-> <<Context>>,
                        interleaved |-> sched.interleaved
                                           \/ (Started(Context) /\ Started(o))]

SharedNext ==
    \/ TerminalStringEnter
    \/ TerminalStringLoop
    \/ TerminalStringTransform
    \/ TerminalStringReturn
    \/ CharacterGroupEnter
    \/ CharacterGroupRead
    \/ CharacterGroupTransform
    \/ CharacterGroupReturn
    \/ AlternationEnter
    \/ AlternationLoop
    \/ AlternationChild
    \/ AlternationTransform
    \/ ConcatenationEnter
    \/ ConcatenationLoop
    \/ ConcatenationChild
    \/ ConcatenationTransform
    \/ ConcatenationReturn
    \/ RepetitionEnter
    \/ RepetitionLoop
    \/ RepetitionChild
    \/ RepetitionAfter
    \/ RepetitionTransform
    \/ RepetitionReturn
    \/ ExceptionEnter
    \/ ExceptionExcept
    \/ ExceptionTransform
    \/ ExceptionReturn
    \/ ExceptionMustMatch
    \/ EOFMatch
    \/ Switch

SharedSpec == SharedInit /\ [][SharedNext]_vars

\* ------------------------------------------------------------------------
\* Properties
\* ------------------------------------------------------------------------

\* a call of Match has just returned a MatchResult and no error
Returned_ok == ret.valid /\ ret.err = NoError

\* a call of Match on a pattern of this kind has just returned a MatchResult
ReturnedFrom(kind) == Returned_ok /\ Kind(ret.frame) = kind

Matched(m) == heap[m].Match

\* C1: Backtracking neutrality.  When a call of Match, on any pattern at any
\* depth, returns a result with Match = false and no error, the reader's
\* absolute position and line position are those at the entry of the call.
BacktrackingNeutrality ==
    (Returned_ok /\ ~Matched(ret.result)) =>
        /\ r.bufPos = ret.frame.entry.bufPos
        /\ r.linePos = ret.frame.entry.linePos

\* a concatenation that failed after its children had read into the next line
BacktrackingNeutralityWitness ==
    /\ ReturnedFrom("Concatenation")
    /\ ~Matched(ret.result)
    /\ heap[ret.result].EndPos.absoluteCharPos > ret.frame.entry.bufPos
    /\ heap[ret.result].EndPos.linePos > ret.frame.entry.linePos
    /\ r.bufPos = ret.frame.entry.bufPos

\* C2: Savepoint balance.  When a call of Match returns a result and no
\* error, the position stack and the line stack of the reader have the
\* contents they had at the entry of the call.
SavepointBalance ==
    Returned_ok =>
        /\ r.bufPosStack = ret.frame.entry.bufPosStack
        /\ r.linePosStack = ret.frame.entry.linePosStack

\* a nested repetition that collected two matches, each with its own savepoint
SavepointBalanceWitness ==
    /\ ReturnedFrom("Repetition")
    /\ Matched(ret.result)
    /\ Len(ret.frame.matches) >= 2
    /\ Len(r.bufPosStack) >= 2
    /\ r.linePos > 0

\* C3: Resource discipline on the fatal path.  When a call of Match returns
\* an error, every savepoint it pushed has been popped or restored: the
\* savepoint stacks are as deep as at the entry of the call.
FatalPathBalance ==
    (ret.valid /\ ret.err # NoError) =>
        /\ Len(r.bufPosStack) = Len(ret.frame.entry.bufPosStack)
        /\ Len(r.linePosStack) = Len(ret.frame.entry.linePosStack)

\* C4: When a call of Match returns an error, the reader's absolute position
\* and line position are those at the entry of the call.
FatalPathRestores ==
    (ret.valid /\ ret.err # NoError) =>
        /\ r.bufPos = ret.frame.entry.bufPos
        /\ r.linePos = ret.frame.entry.linePos

\* C5: Fatal errors abort the whole match.  Once a call of Match has returned
\* an error, every further step is the return of the enclosing call with
\* that same error: no child is called and no transform is invoked (the log
\* of calls and transforms stays as it is), and when the root returns the
\* match is over with that error.
FatalErrorAborts ==
    [][ret.err # NoError =>
          /\ ret'.valid
          /\ ret'.err = ret.err
          /\ log' = log
          /\ Len(stack') = Len(stack) - 1
          /\ (Len(stack') = 0 => status' = "done")]_vars

\* the transform of "b" failed below ("a" "b")+ after other transforms had
\* run, and the root returned that error
FatalErrorAbortsWitness ==
    /\ status = "done"
    /\ root = 19
    /\ ret.err = TransformError(2)
    /\ ret.frame.p = root
    /\ Len(log) >= 6

\* C6: Ordered choice.  When Alternation returns a matching result, it has
\* called its children in order from the first, each at the position the
\* alternation was entered at, all but the last called failed, the last
\* called matched and its result is the one returned, after the
\* alternation's transform ran on it; no later child was called.
OrderedChoice ==
    (ReturnedFrom("Alternation") /\ Matched(ret.result)) =>
        LET a == Grammar[ret.frame.p]
            calls == ret.frame.calls
            n == Len(calls)
        IN  /\ n >= 1
            /\ n <= Len(a.Patterns)
            /\ \A k \in 1..n :
                  /\ calls[k].p = a.Patterns[k]
                  /\ calls[k].begin = ret.frame.entry.bufPos
                  /\ Matched(calls[k].result) <=> k = n
            /\ ret.result = calls[n].result
            /\ log[Len(log)] = [ev |-> "transform", p |-> ret.frame.p,
                                m |-> ret.result]

\* "b" | "ab" | "a" on input "ab...": the result is that of "ab", and "a",
\* which matches there too, was not called
OrderedChoiceWitness ==
    /\ ReturnedFrom("Alternation")
    /\ ret.frame.p = 9
    /\ Matched(ret.result)
    /\ Len(ret.frame.calls) = 2
    /\ heap[ret.result].Result = StringResult(<<97, 98>>)
    /\ ret.frame.entry.bufPos = 0

\* C7: Concatenation calls its children in order, each at the position the
\* previous one left the reader at, and returns Match = true iff every child
\* returned Match = true; then Result is the list of the results of the
\* children in order, as long as the list of children, and the reader is
\* where the last child left it.
ConcatenationSequence ==
    ReturnedFrom("Concatenation") =>
        LET c == Grammar[ret.frame.p]
            calls == ret.frame.calls
            n == Len(calls)
            m == heap[ret.result]
        IN  /\ n <= Len(c.Patterns)
            /\ \A k \in 1..n :
                  /\ calls[k].p = c.Patterns[k]
                  /\ calls[k].begin = IF k = 1 THEN ret.frame.entry.bufPos
                                      ELSE calls[k - 1].end
            /\ m.Match <=> /\ n = Len(c.Patterns)
                           /\ \A k \in 1..n : Matched(calls[k].result)
            /\ m.Match =>
                  /\ m.Result = ListResult([k \in 1..n |-> calls[k].result])
                  /\ Len(m.Result.val) = Len(c.Patterns)
                  /\ r.bufPos = IF n = 0 THEN ret.frame.entry.bufPos
                                ELSE calls[n].end

\* [a] [^a-b] "a" matched the three code points of "a\na"
ConcatenationSequenceWitness ==
    /\ ReturnedFrom("Concatenation")
    /\ ret.frame.p = 11
    /\ Matched(ret.result)
    /\ Len(heap[ret.result].Result.val) = 3
    /\ r.bufPos = 3
    /\ ret.frame.entry.bufPos = 0

\* C8: Concatenation rollback.  When Concatenation returns Match = false,
\* the last child called is the first that failed, no later child was
\* called, BeginPos is the position at entry, PartialMatch tells whether an
\* earlier child matched, Failed is the result of the failing child, and the
\* reader is back at the position at entry.
ConcatenationRollback ==
    (ReturnedFrom("Concatenation") /\ ~Matched(ret.result)) =>
        LET c == Grammar[ret.frame.p]
            calls == ret.frame.calls
            n == Len(calls)
            m == heap[ret.result]
        IN  /\ n >= 1
            /\ n <= Len(c.Patterns)
            /\ \A k \in 1..n :
                  /\ calls[k].p = c.Patterns[k]
                  /\ Matched(calls[k].result) <=> k < n
            /\ m.BeginPos = CurrentPosition(ret.frame.entry)
            /\ m.PartialMatch <=> n > 1
            /\ m.Failed = calls[n].result
            /\ r.bufPos = ret.frame.entry.bufPos
            /\ r.linePos = ret.frame.entry.linePos

\* "a" "b" on input "aa": "b" fails at 1, the failure is partial and the
\* reader is back at 0
ConcatenationRollbackWitness ==
    /\ ReturnedFrom("Concatenation")
    /\ ret.frame.p = 10
    /\ r.buf = <<97, 97>>
    /\ ~Matched(ret.result)
    /\ heap[ret.result].PartialMatch
    /\ heap[heap[ret.result].Failed].BeginPos.absoluteCharPos = 1
    /\ r.bufPos = 0

\* the number of matches a returned repetition collected: the child calls
\* that matched
Collected(f) == Cardinality({k \in 1..Len(f.calls) : Matched(f.calls[k].result)})

\* C9: Min/max enforcement.  Repetition collects the matches of consecutive
\* child calls and stops at the first child failure, at end of input, or
\* when Max > 0 matches are collected; it returns Match = true iff the
\* number n collected is at least Min, and then Result is the list of the n
\* results with Min <= n and (Max = 0 or n <= Max).
RepetitionMinMax ==
    ReturnedFrom("Repetition") =>
        LET rep == Grammar[ret.frame.p]
            calls == ret.frame.calls
            n == Collected(ret.frame)
            m == heap[ret.result]
            stopPos == IF Len(calls) = 0 THEN ret.frame.entry.bufPos
                       ELSE calls[Len(calls)].end
        IN  /\ \A k \in 1..Len(calls) :
                  /\ calls[k].p = rep.Pattern
                  /\ k < Len(calls) => Matched(calls[k].result)
            /\ \/ Len(calls) > 0 /\ ~Matched(calls[Len(calls)].result)
               \/ stopPos >= r.bufPosEnd
               \/ rep.Max > 0 /\ n = rep.Max
            /\ m.Match <=> n >= rep.Min
            /\ m.Match =>
                  /\ m.Result = ListResult([k \in 1..n |-> calls[k].result])
                  /\ Len(m.Result.val) = n
                  /\ rep.Min <= n
                  /\ rep.Max = 0 \/ n <= rep.Max

\* [a]{2,} on input "aab": two matches, the reader at 2 and not finished
RepetitionMinMaxWitness ==
    /\ ReturnedFrom("Repetition")
    /\ ret.frame.p = 12
    /\ r.buf = <<97, 97, 98>>
    /\ Matched(ret.result)
    /\ Len(heap[ret.result].Result.val) = 2
    /\ r.bufPos = 2

\* C10: Repetition below minimum.  Whenever the loop of Repetition stops with
\* fewer than Min matches - also when the reader was finished at entry and no
\* child was called - Match does not crash and returns Match = false with
\* the error "expected minimum of <Min> repetitions", Failed the last child
\* result if it failed and nil otherwise, and the reader at the position at
\* entry.
RepetitionBelowMinimum ==
    /\ status # "panic"
    /\ (ReturnedFrom("Repetition")
          /\ Collected(ret.frame) < Grammar[ret.frame.p].Min) =>
            LET calls == ret.frame.calls
                m == heap[ret.result]
                last == IF Len(calls) = 0 THEN NilPtr
                        ELSE calls[Len(calls)].result
            IN  /\ ~m.Match
                /\ m.Error = RepetitionError(Grammar[ret.frame.p])
                /\ m.Failed = IF last # NilPtr /\ ~Matched(last)
                              THEN last ELSE NilPtr
                /\ r.bufPos = ret.frame.entry.bufPos
                /\ r.linePos = ret.frame.entry.linePos

\* C11: Greedy repetition.  When Repetition with Max = 0 returns a match,
\* the reader is finished or the last child call failed at the position the
\* reader is left at.  A Concatenation calls each child at most once, in
\* order: when a child after a Repetition fails the Repetition is not called
\* again with fewer iterations and the Concatenation fails.
GreedyRepetition ==
    /\ (ReturnedFrom("Repetition") /\ Grammar[ret.frame.p].Max = 0
          /\ Matched(ret.result)) =>
            LET calls == ret.frame.calls
                n == Len(calls)
            IN  \/ Finished(r)
                \/ /\ n >= 1
                   /\ ~calls[n].match
                   /\ calls[n].begin = r.bufPos
                   /\ calls[n].end = r.bufPos
    /\ ReturnedFrom("Concatenation") =>
            LET c == Grammar[ret.frame.p]
                calls == ret.frame.calls
            IN  /\ Len(calls) <= Len(c.Patterns)
                /\ \A k \in 1..Len(calls) : calls[k].p = c.Patterns[k]
                /\ (\E k \in 1..Len(calls) : ~calls[k].match)
                      => ~Matched(ret.result)

\* [a]* "a" on input "aa": [a]* took both code points at its only call, "a"
\* failed at end of input and the concatenation failed
GreedyRepetitionWitness ==
    /\ ReturnedFrom("Concatenation")
    /\ ret.frame.p = 22
    /\ r.buf = <<97, 97>>
    /\ ret.frame.entry.bufPos = 0
    /\ Len(ret.frame.calls) = 2
    /\ Len(heap[ret.frame.calls[1].result].Result.val) = 2
    /\ ~Matched(ret.result)

\* C12: Exception semantics.  Exception calls Except at the entry position;
\* it calls MustMatch only when Except failed, and then at the entry
\* position again; it returns Match = true iff Except failed and MustMatch
\* matched, and then the result is the one MustMatch returned and the reader
\* is where MustMatch left it.
ExceptionSemantics ==
    ReturnedFrom("Exception") =>
        LET e == Grammar[ret.frame.p]
            calls == ret.frame.calls
            n == Len(calls)
        IN  /\ n \in {1, 2}
            /\ calls[1].p = e.Except
            /\ calls[1].begin = ret.frame.entry.bufPos
            /\ n = 2 <=> ~calls[1].match
            /\ n = 2 =>
                  /\ calls[2].p = e.MustMatch
                  /\ calls[2].begin = ret.frame.entry.bufPos
                  /\ ret.result = calls[2].result
                  /\ r.bufPos = calls[2].end
            /\ Matched(ret.result) <=> (~calls[1].match /\ n = 2 /\ calls[2].match)

\* [a] - "ab" on input "aa": "ab" read the first "a" and failed, [a] then
\* matched at 0 and the reader is at 1
ExceptionSemanticsWitness ==
    /\ ReturnedFrom("Exception")
    /\ ret.frame.p = 16
    /\ r.buf = <<97, 97>>
    /\ ret.frame.entry.bufPos = 0
    /\ heap[ret.frame.calls[1].result].EndPos.absoluteCharPos = 2
    /\ Matched(ret.result)
    /\ heap[ret.result].Result = StringResult(<<97>>)
    /\ r.bufPos = 1

\* C13: Slice correctness.  Every result with Match = true that a call of
\* Match returns, on any of the seven variants, has a begin and an end
\* position with end.abs >= begin.abs within the input, they are the reader
\* positions at the entry and at the return of the call, and
\* StringFromResult gives the code points read in between.
SliceCorrectness ==
    (Returned_ok /\ Matched(ret.result)) =>
        LET m == heap[ret.result]
        IN  /\ m.BeginPos # NilPos
            /\ m.EndPos # NilPos
            /\ m.EndPos.absoluteCharPos >= m.BeginPos.absoluteCharPos
            /\ m.BeginPos.absoluteCharPos = ret.frame.entry.bufPos
            /\ m.EndPos.absoluteCharPos = r.bufPos
            /\ Len(StringFromResult(r, m))
                  = m.EndPos.absoluteCharPos - m.BeginPos.absoluteCharPos

\* the number of precomputed line-start indices that are <= abs
LineOf(rd, abs) == Cardinality({k \in 1..Len(rd.lines) : rd.lines[k] <= abs})

\* C14: Line/column correctness.  In every reachable state of the reader,
\* the end of input included, CurrentPosition gives the line that is the
\* number of line-start indices <= abs, and the relative position that is
\* abs minus the start index of that line (abs on line zero).
LineColumnCorrectness ==
    LET pos == CurrentPosition(r)
        line == LineOf(r, pos.absoluteCharPos)
    IN  /\ pos.linePos = line
        /\ pos.relativeCharPos = IF line = 0 THEN pos.absoluteCharPos
                                 ELSE pos.absoluteCharPos - r.lines[line]

\* the pattern has children
ChildBearing(p) ==
    Grammar[p].kind \in {"Alternation", "Concatenation", "Repetition", "Exception"}

\* the transform invocations on result m, as indices of the log
TransformsOn(m) == {i \in 1..Len(log) : log[i].ev = "transform" /\ log[i].m = m}

\* the first transform invocation on result m
FirstTransformOn(m) == CHOOSE i \in TransformsOn(m) : \A i2 \in TransformsOn(m) : i <= i2

\* C15: Transform post-order.  At every transform invocation of a
\* child-bearing pattern on a result m: the child results in the list of m
\* have been through their own transforms before, in the order of the list;
\* a matching result that m passes on from a child (Alternation, Exception)
\* has been through the transform of that child before; and no transform of
\* a child or descendant runs on an exposed result afterwards.
TransformPostOrder ==
    \A j \in 1..Len(log) :
        (log[j].ev = "transform" /\ ChildBearing(log[j].p)) =>
            LET p == log[j].p
                m == log[j].m
                list == IF heap[m].Result.type = "list" THEN heap[m].Result.val
                        ELSE <<>>
                exposed == {list[k] : k \in 1..Len(list)}
                              \cup ({heap[m].Failed} \ {NilPtr})
                passedOn == \/ Grammar[p].kind = "Exception"
                            \/ Grammar[p].kind = "Alternation" /\ heap[m].Match
            IN  /\ \A k \in 1..Len(list) :
                      /\ TransformsOn(list[k]) # {}
                      /\ FirstTransformOn(list[k]) < j
                      /\ k > 1 => FirstTransformOn(list[k - 1])
                                     < FirstTransformOn(list[k])
                /\ (passedOn /\ heap[m].Match) =>
                      \E i \in TransformsOn(m) : i < j /\ log[i].p < p
                /\ \A c \in exposed \cup {m} : \A i \in TransformsOn(c) :
                      i > j => (c = m /\ log[i].p > p)

\* the transform invocations logged so far, as the patterns invoked
RECURSIVE TransformsOf(_)
TransformsOf(l) ==
    IF l = <<>> THEN <<>>
    ELSE LET rest == TransformsOf(SubSeq(l, 1, Len(l) - 1))
             e == l[Len(l)]
         IN  IF e.ev = "transform" THEN Append(rest, e.p) ELSE rest

\* [a] [^a-b] "a" matched: the transforms ran on [a], [^a-b], "a" and then
\* on the concatenation
TransformPostOrderWitness ==
    /\ ReturnedFrom("Concatenation")
    /\ ret.frame.p = 11
    /\ root = 11
    /\ Matched(ret.result)
    /\ TransformsOf(log) = <<5, 6, 1, 11>>

\* the n code points of the input from the reader's position on, fewer if
\* the input ends before
Upcoming(rd, n) ==
    SubSeq(rd.buf, rd.bufPos + 1,
           IF rd.bufPos + n <= rd.bufPosEnd THEN rd.bufPos + n ELSE rd.bufPosEnd)

\* C16: a TerminalString with text S matches iff the next |S| code points
\* exist and equal S; on a match Result = S, BeginPos is the entry position,
\* EndPos.abs = BeginPos.abs + |S| and the reader has advanced by exactly
\* |S|; it fails when fewer than |S| code points remain.
TerminalStringMatch ==
    ReturnedFrom("TerminalString") =>
        LET m == heap[ret.result]
            S == Grammar[ret.frame.p].String
            entry == ret.frame.entry
        IN  /\ m.Match <=> Upcoming(entry, Len(S)) = S
            /\ entry.bufPosEnd - entry.bufPos < Len(S) => ~m.Match
            /\ m.Match =>
                  /\ m.Result = StringResult(S)
                  /\ m.BeginPos = CurrentPosition(entry)
                  /\ m.EndPos.absoluteCharPos = m.BeginPos.absoluteCharPos + Len(S)
                  /\ r.bufPos = entry.bufPos + Len(S)

\* "ab" matched at position 1 of a three code point input, and the whole
\* input has been consumed
TerminalStringMatchWitness ==
    /\ ReturnedFrom("TerminalString")
    /\ ret.frame.p = 3
    /\ ret.frame.entry.bufPos = 1
    /\ Matched(ret.result)
    /\ Finished(r)

\* C17: a CharacterGroup matches iff the reader is not at the end of the
\* input and Group(c) differs from Reversed for the code point c at the
\* position; on a match it consumes exactly one code point and Result is
\* that code point as text; at the end of the input it fails whether
\* Reversed or not.
CharacterGroupMatch ==
    ReturnedFrom("CharacterGroup") =>
        LET m == heap[ret.result]
            g == Grammar[ret.frame.p]
            entry == ret.frame.entry
            c == entry.buf[entry.bufPos + 1]
        IN  /\ m.Match <=> (~Finished(entry) /\ (Group(g.Group, c) # g.Reversed))
            /\ Finished(entry) => ~m.Match
            /\ m.Match =>
                  /\ r.bufPos = entry.bufPos + 1
                  /\ m.Result = StringResult(<<c>>)

\* the reversed group [^a-b] matched a line feed that is not the first code
\* point of the input
CharacterGroupMatchWitness ==
    /\ ReturnedFrom("CharacterGroup")
    /\ Grammar[ret.frame.p].Reversed
    /\ ret.frame.entry.bufPos > 0
    /\ Matched(ret.result)
    /\ heap[ret.result].Result = StringResult(<<LF>>)

\* C18: a call of Match on the EOF pattern returns a result whose Match is
\* Finished() at the time of the call, has invoked its transform exactly once
\* on that result, and leaves the reader's position, line and savepoint
\* stacks as they were.
EOFPattern ==
    (ret.valid /\ Kind(ret.frame) = "EOF") =>
        LET entry == ret.frame.entry
        IN  /\ ret.result # NilPtr
            /\ heap[ret.result].Match = Finished(entry)
            /\ Cardinality({i \in TransformsOn(ret.result) :
                               log[i].p = ret.frame.p}) = 1
            /\ r.bufPos = entry.bufPos
            /\ r.linePos = entry.linePos
            /\ r.bufPosStack = entry.bufPosStack
            /\ r.linePosStack = entry.linePosStack

\* EOF returned Match = true inside [a]* EOF after the repetition consumed
\* the input, with a savepoint stack that is not empty at the call
EOFPatternWitness ==
    /\ ret.valid /\ ret.err = NoError
    /\ Kind(ret.frame) = "EOF"
    /\ Len(stack) > 0
    /\ ret.frame.entry.bufPos > 0
    /\ ret.frame.entry.bufPosStack # <<>>
    /\ Matched(ret.result)

\* how far the pushed result m reaches
EndOf(m) == heap[m].EndPos.absoluteCharPos

\* C19: DeepestError returns nil when nothing has been pushed with PushError
\* since construction, and otherwise the pushed result with the largest
\* EndPos absolute position, the earliest pushed one when several share the
\* maximum.
DeepestErrorIsEarliestMaximum ==
    LET es == r.errorStack
        deepest == DeepestError(es, heap)
    IN  IF es = <<>> THEN deepest = NilPtr
        ELSE \E k \in 1..Len(es) :
                /\ deepest = es[k]
                /\ \A j \in 1..Len(es) :
                      /\ EndOf(es[j]) <= EndOf(es[k])
                      /\ j < k => EndOf(es[j]) < EndOf(es[k])

\* three results were pushed, the second and the third reach equally far and
\* farther than the first, and DeepestError is the second
DeepestErrorWitness ==
    LET es == r.errorStack
    IN  /\ Len(es) = 3
        /\ EndOf(es[1]) < EndOf(es[2])
        /\ EndOf(es[2]) = EndOf(es[3])
        /\ es[2] # es[3]
        /\ DeepestError(es, heap) = es[2]

\* the loop of the unbounded Repetition of frame f is about to go round
\* again from the reader state of its last iteration: the child matched
\* without consuming, so the same call returns the same match again
Stalled(f) ==
    /\ Kind(f) = "Repetition"
    /\ Grammar[f.p].Max = 0
    /\ f.pc = "loop"
    /\ ~Finished(r)
    /\ f.calls # <<>>
    /\ f.calls[Len(f.calls)].match
    /\ f.calls[Len(f.calls)].begin = f.calls[Len(f.calls)].end

\* C20: Termination.  Match on the root returns after finitely many steps,
\* also when an unbounded Repetition (Max = 0) is nested around a child that
\* can succeed without consuming input: no Repetition without a maximum ever
\* starts a further iteration from the reader state of the iteration before,
\* so that the number of iterations is bounded by the input that is left.
Termination ==
    /\ status = "running" => ~Stalled(Top)
    /\ \A k \in 1..Len(stack) :
          (Kind(stack[k]) = "Repetition" /\ Grammar[stack[k].p].Max = 0) =>
              Len(stack[k].matches)
                  <= stack[k].entry.bufPosEnd - stack[k].entry.bufPos

\* C22: Alternation tests Finished() before it calls each child: no child is
\* called with the reader at the end of the input, and an Alternation entered
\* at the end of the input calls no child and returns Match = false, also
\* when a child (EOF, an optional repetition, an empty TerminalString) would
\* match there.
AlternationAtEnd ==
    ReturnedFrom("Alternation") =>
        LET f == ret.frame
        IN  /\ \A k \in 1..Len(f.calls) : f.calls[k].begin < f.entry.bufPosEnd
            /\ Finished(f.entry) =>
                  /\ f.calls = <<>>
                  /\ ~Matched(ret.result)

\* EOF | "a"? | "" entered at the end of a non-empty input returned a
\* failure without a child call
AlternationAtEndWitness ==
    /\ ReturnedFrom("Alternation")
    /\ ret.frame.p = 26
    /\ ret.frame.entry.bufPosEnd > 0
    /\ Finished(ret.frame.entry)
    /\ ret.frame.calls = <<>>
    /\ ~Matched(ret.result)

\* the child calls of frame f that returned a partial match
PartialCalls(f) ==
    {k \in 1..Len(f.calls) :
        ~f.calls[k].match /\ heap[f.calls[k].result].PartialMatch}

\* the largest element of a non-empty set of numbers
Maximum(S) == CHOOSE k \in S : \A j \in S : j <= k

\* C23: Alternation failure record.  When no child matches, Alternation
\* returns Match = false with BeginPos = EndPos = the entry position and
\* Failed = the result of the last tried child that returned PartialMatch
\* without Match, nil when there was none; the transform of the Alternation
\* has run exactly once on this record.
AlternationFailure ==
    (ReturnedFrom("Alternation") /\ ~Matched(ret.result)) =>
        LET f == ret.frame
            m == heap[ret.result]
        IN  /\ m.BeginPos = CurrentPosition(f.entry)
            /\ m.EndPos = CurrentPosition(f.entry)
            /\ m.Failed = IF PartialCalls(f) = {} THEN NilPtr
                          ELSE f.calls[Maximum(PartialCalls(f))].result
            /\ Cardinality({i \in TransformsOn(ret.result) : log[i].p = f.p}) = 1

\* three children failed, the first two partially: Failed is the result of
\* the second
AlternationFailureWitness ==
    /\ ReturnedFrom("Alternation")
    /\ ~Matched(ret.result)
    /\ Len(ret.frame.calls) = 3
    /\ PartialCalls(ret.frame) = {1, 2}
    /\ ret.frame.calls[1].result # ret.frame.calls[2].result
    /\ heap[ret.result].Failed = ret.frame.calls[2].result

\* following Failed from m reaches nil within n steps
RECURSIVE ChainEnds(_, _)
ChainEnds(m, n) ==
    \/ m = NilPtr
    \/ n > 0 /\ ChainEnds(heap[m].Failed, n - 1)

\* C24: Failure chain is walkable.  From every failed result that a pattern
\* returns, following the Failed references reaches nil after finitely many
\* steps: no result is reachable from itself through Failed.
FailureChainWalkable ==
    (Returned_ok /\ ~Matched(ret.result)) => ChainEnds(ret.result, Len(heap))

\* C25: Value absent on failure.  Every result with Match = false that a
\* pattern returns has Result = nil; the transforms of the model do not
\* rewrite Result.
ValueAbsentOnFailure ==
    (Returned_ok /\ ~Matched(ret.result)) => heap[ret.result].Result = NilResult

\* C26: every result with Match = false that a pattern returns has BeginPos
\* and EndPos set, with BeginPos.abs <= EndPos.abs <= input length, so that
\* RangeString is defined on it.
FailurePositions ==
    (Returned_ok /\ ~Matched(ret.result)) =>
        LET m == heap[ret.result]
        IN  /\ m.BeginPos # NilPos
            /\ m.EndPos # NilPos
            /\ m.BeginPos.absoluteCharPos <= m.EndPos.absoluteCharPos
            /\ m.EndPos.absoluteCharPos <= r.bufPosEnd

\* C27: CharacterGroup invokes its transform exactly once on every
\* invocation, on a match, on a code point that is no member and at the end
\* of the input, and each time before its savepoint is popped or restored.
CharacterGroupTransformsOnce ==
    /\ (ret.valid /\ Kind(ret.frame) = "CharacterGroup") =>
          Cardinality({i \in TransformsOn(ret.frame.result) :
                          log[i].p = ret.frame.p}) = 1
    /\ (status = "running" /\ Kind(Top) = "CharacterGroup"
           /\ Top.pc \in {"read", "transform"}) =>
          /\ Len(r.bufPosStack) = Len(Top.entry.bufPosStack) + 1
          /\ TransformsOn(Top.result) = {}

\* the last call on the reader was of this method
LastCalled(method) == log # <<>> /\ log[1].ev = method

\* C28: Reader bounds.  In every state 0 <= abs <= length; Peak never
\* changes the reader; Read advances abs by exactly one when abs < length;
\* at abs = length Peak and Read report the end of the input and leave abs,
\* line and the savepoint stacks as they are; Finished() is true exactly
\* when abs = length.
ReaderBounds ==
    /\ 0 <= r.bufPos /\ r.bufPos <= Len(r.buf)
    /\ Finished(r) <=> r.bufPos = Len(r.buf)
    /\ LastCalled("Peak") =>
          LET before == log[1].before
          IN  /\ r = before
              /\ IF before.bufPos < Len(before.buf)
                 THEN /\ log[1].err = NoError
                      /\ log[1].rn = before.buf[before.bufPos + 1]
                 ELSE log[1].err = EOFError
    /\ LastCalled("Read") =>
          LET before == log[1].before
          IN  IF before.bufPos < Len(before.buf)
              THEN /\ log[1].err = NoError
                   /\ log[1].rn = before.buf[before.bufPos + 1]
                   /\ r.bufPos = before.bufPos + 1
              ELSE /\ log[1].err = EOFError
                   /\ r.bufPos = before.bufPos
                   /\ r.linePos = before.linePos
                   /\ r.bufPosStack = before.bufPosStack
                   /\ r.linePosStack = before.linePosStack

\* Read was called at the end of a non-empty input with a savepoint pushed
\* and reported the end of the input
ReaderBoundsWitness ==
    /\ status = "reader"
    /\ LastCalled("Read")
    /\ log[1].err = EOFError
    /\ r.bufPos > 0
    /\ Len(r.bufPosStack) > 1

\* C29: Sentinel.  At every step of a match in which no transform has
\* returned an error, the savepoint stacks are not empty and their bottom
\* entry is the savepoint (abs 0, line 0) of the constructor: no pattern
\* pops or restores it.
Sentinel ==
    ret.err = NoError =>
        /\ r.bufPosStack # <<>>
        /\ r.linePosStack # <<>>
        /\ r.bufPosStack[1] = 0
        /\ r.linePosStack[1] = 0

\* a match that started after the first line of the input has returned to
\* the caller of the root with only the savepoint of the constructor left
SentinelWitness ==
    /\ status = "done"
    /\ ret.err = NoError
    /\ ret.frame.entry.linePos > 0
    /\ Len(ret.frame.calls) > 1
    /\ r.bufPosStack = <<0>>
    /\ r.linePosStack = <<0>>

\* the indices just after the line terminators of rs: after every LF, and
\* after every CR that no LF follows
LineStarts(rs) ==
    {k \in 1..Len(rs) :
        \/ rs[k] = LF
        \/ rs[k] = CR /\ ~(k < Len(rs) /\ rs[k + 1] = LF)}

\* C30: Line-start table.  NewReader records one line-start index per line
\* terminator, where LF, a bare CR and a CR immediately followed by LF each
\* count as one terminator and the index is the one just after the
\* terminator; the indices are strictly increasing and lie in
\* [0, input length].
LineStartTable ==
    /\ Len(r.lines) = Cardinality(LineStarts(r.buf))
    /\ \A k \in 1..Len(r.lines) :
          /\ r.lines[k] \in LineStarts(r.buf)
          /\ 0 <= r.lines[k] /\ r.lines[k] <= Len(r.buf)
          /\ k > 1 => r.lines[k - 1] < r.lines[k]
    /\ r.linePosEnd = Len(r.lines)

\* a reader on CR LF CR: two terminators, line starts 2 and 3
LineStartTableWitness ==
    /\ status = "reader"
    /\ r.buf = <<CR, LF, CR>>
    /\ r.lines = <<2, 3>>
    /\ log = <<>>

\* the match of context c has returned to its caller without an error
Completed(c) == c.status = "done" /\ c.ret.err = NoError

RepetitionMinZero ==
    (ReturnedFrom("Repetition") /\ Grammar[ret.frame.p].Min = 0) =>
        LET f == ret.frame
            m == heap[ret.result]
        IN  /\ m.Match
            /\ (Finished(f.entry) \/ (f.calls # <<>> /\ ~f.calls[1].match)) =>
                  /\ m.Result = ListResult(<<>>)
                  /\ r.bufPos = f.entry.bufPos
                  /\ r.linePos = f.entry.linePos

\* [a]* was entered after the start of the input, its first child call
\* failed, and it returned a match with the empty list
RepetitionMinZeroWitness ==
    /\ ReturnedFrom("Repetition")
    /\ ret.frame.p = 14
    /\ ret.frame.entry.bufPos > 0
    /\ Len(ret.frame.calls) = 1
    /\ ~ret.frame.calls[1].match
    /\ Matched(ret.result)
    /\ heap[ret.result].Result = ListResult(<<>>)

\* the results that the transform invocations of l have pushed with
\* PushError, in the order of the invocations
RECURSIVE PushesOf(_)
PushesOf(l) ==
    IF l = <<>> THEN <<>>
    ELSE LET rest == PushesOf(SubSeq(l, 1, Len(l) - 1))
             e == l[Len(l)]
         IN  IF e.ev = "transform" /\ ReportsError(e.p, e.m, heap)
             THEN Append(rest, e.m) ELSE rest

\* C32: the error stack of the reader is changed only by PushError, which
\* appends.  It holds the results pushed so far, in the order of the pushes,
\* also those pushed in a branch that was backtracked later; PushState,
\* RestoreState, PopState, Read and Peak leave it as it is.
ErrorStackKeepsPushes ==
    /\ r.errorStack = PushesOf(log)
    /\ PushState(r).errorStack = r.errorStack
    /\ RestoreState(r).errorStack = r.errorStack
    /\ PopState(r).errorStack = r.errorStack
    /\ Read(r).r.errorStack = r.errorStack
    /\ Peak(r).r.errorStack = r.errorStack

\* the root 10 | 11 | 23 has matched through its third child, and the
\* failures that the first two pushed are still on the reader: DeepestError
\* returns one of them
ErrorStackKeepsPushesWitness ==
    /\ status = "done"
    /\ root = 24
    /\ Returned_ok
    /\ Matched(ret.result)
    /\ Len(r.errorStack) = 2
    /\ DeepestError(r.errorStack, heap) = r.errorStack[2]
    /\ EndOf(r.errorStack[2]) > ret.frame.entry.bufPos

\* the result c has a begin and an end position
CarriesPositions(c) == heap[c].BeginPos # NilPos /\ heap[c].EndPos # NilPos

\* C33: Contiguous child ranges.  In every successful Concatenation or
\* Repetition result, of the child results that carry positions (all but
\* those of EOF) the first begins where the parent begins, each begins where
\* the one before ends, and the last ends where the parent ends.
ContiguousChildRanges ==
    ((ReturnedFrom("Concatenation") \/ ReturnedFrom("Repetition"))
        /\ Matched(ret.result)) =>
        LET m == heap[ret.result]
            cs == SelectSeq(m.Result.val, CarriesPositions)
        IN  /\ m.Result.type = "list"
            /\ \A k \in 1..Len(m.Result.val) :
                  CarriesPositions(m.Result.val[k])
                     \/ Grammar[ret.frame.calls[k].p].kind = "EOF"
            /\ cs # <<>> =>
                  /\ heap[cs[1]].BeginPos.absoluteCharPos
                        = m.BeginPos.absoluteCharPos
                  /\ \A k \in 2..Len(cs) :
                        heap[cs[k]].BeginPos.absoluteCharPos
                           = heap[cs[k - 1]].EndPos.absoluteCharPos
                  /\ heap[cs[Len(cs)]].EndPos.absoluteCharPos
                        = m.EndPos.absoluteCharPos

\* [a] [^a-b] "a" matched the whole input with three child results, one
\* code point each
ContiguousChildRangesWitness ==
    /\ ReturnedFrom("Concatenation")
    /\ ret.frame.p = 11
    /\ Matched(ret.result)
    /\ Len(heap[ret.result].Result.val) = 3
    /\ heap[heap[ret.result].Result.val[2]].BeginPos.absoluteCharPos = 1
    /\ heap[heap[ret.result].Result.val[3]].EndPos.absoluteCharPos = 3
    /\ heap[ret.result].EndPos.absoluteCharPos = 3

====
